---- MODULE Spec2Model ----
(***************************************************************************)
(* Model of HumioClient.execute_search (src/src/humio_mcp/humio_client.py) *)
(* and of the helpers it drives: _create_query_job, _poll_query_job,       *)
(* _delete_query_job, _stream_search_response and _parse_ndjson.           *)
(*                                                                         *)
(* One coroutine runs execute_search.  Every action is the code between    *)
(* two suspension points (an awaited HTTP response, a received chunk, an   *)
(* asyncio.sleep): it consumes what the await produced, runs the code up   *)
(* to the next await and records the request or sleep that await starts.   *)
(* The variable log is the wire trace: requests issued, responses          *)
(* received (for the streaming request, the failures and the end of the    *)
(* body), sleeps started and cancellations delivered, in order.            *)
(***************************************************************************)
EXTENDS Integers, Sequences, FiniteSets, TLC

VARIABLES
    pc,          \* suspension point of the coroutine
    cluster,     \* the ClusterConfig the client was built with
    start,       \* argument start of execute_search
    end,         \* argument end of execute_search
    max_results, \* argument max_results of execute_search
    payload,     \* local payload of execute_search
    job_id,      \* local job_id of execute_search
    events,      \* local events of execute_search
    attempt,     \* loop variable of _stream_search_response
    lines,       \* local lines of _stream_search_response
    last_error,  \* local last_error of _stream_search_response
    handled,     \* the exception being handled by the except clause
    pending,     \* what the try statement completes with once finally ends
    result,      \* what execute_search returned or raised
    log,         \* wire trace
    running,     \* the invocation the event loop is running
    parked       \* the frames of the other invocations, each at its await

(* What no step of an invocation changes: what the caller supplied, and   *)
(* the other invocations                                                   *)
args == <<cluster, start, end, max_results, running, parked>>

vars == <<pc, cluster, start, end, max_results, payload, job_id, events,
          attempt, lines, last_error, handled, pending, result, log,
          running, parked>>

----------------------------------------------------------------------------
(* Bounds of the model *)

MaxPolls == 3       \* poll requests per run
MaxChunks == 2      \* chunks per streamed response
MaxEvents == 2      \* events in a poll response

(* Python's None, for the locals that hold a string or None *)
None == "None"

(* Identifiers the server assigns to query jobs: non-empty strings *)
JobIds == {"j1", "j2"}

(* Values of max_results the caller passes *)
MaxResultsArgs == {1}

----------------------------------------------------------------------------
(* Sequence helpers *)

Last(s) == s[Len(s)]

Take(s, n) == SubSeq(s, 1, n)

Min(a, b) == IF a < b THEN a ELSE b

Max(a, b) == IF a < b THEN b ELSE a

RECURSIVE Concat(_)
Concat(ss) == IF ss = <<>> THEN <<>> ELSE Head(ss) \o Concat(Tail(ss))

----------------------------------------------------------------------------
(* Exceptions.  An exception value is its class and the position in the     *)
(* wire trace of the entry that raised it, so that two failures of the      *)
(* same class are still two exceptions.                                     *)

NoError == [type |-> "None", at |-> 0]

Error(t, i) == [type |-> t, at |-> i]

(* Classes the model lets an awaited httpx call raise without a response:  *)
(* two of the classes of _RETRYABLE_ERRORS and a timeout class, which      *)
(* httpx derives from TransportError but not from any _RETRYABLE_ERRORS    *)
(* class.                                                                  *)
TransportErrors == {"ReadError", "ConnectError", "ReadTimeout"}

(* Variant of _RETRYABLE_ERRORS that retries every failure *)
_RETRYABLE_ERRORS_Wide == TransportErrors \cup {"HTTPStatusError"}

_RETRYABLE_ERRORS ==
    {"ReadError", "ConnectError", "RemoteProtocolError", "CloseError"}

(* Variant of FallbackErrors: a bare except clause *)
FallbackErrors_Wide ==
    {"HTTPStatusError", "KeyError", "CancelledError"} \cup TransportErrors

(* Variant of FallbackErrors that leaves HTTPStatusError out *)
FallbackErrors_Narrow == {"KeyError"}

(* Classes named by the except clause of execute_search *)
FallbackErrors == {"HTTPStatusError", "KeyError"}

----------------------------------------------------------------------------
(* HTTP responses.  kind is "ok" (2xx), "status" (4xx/5xx) or "transport"   *)
(* (no response: the await raises err).  The body of a response is a JSON   *)
(* object (a function from keys to values), a JSON array, or not JSON.      *)

Object(v) == [tag |-> "object", val |-> v]

ArrayBody == [tag |-> "array", val |-> <<>>]

InvalidBody == [tag |-> "invalid", val |-> <<>>]

Ok(b) == [kind |-> "ok", err |-> None, body |-> b]

StatusResponse == [kind |-> "status", err |-> None, body |-> InvalidBody]

Transport(t) == [kind |-> "transport", err |-> t, body |-> InvalidBody]

(* JSON values of the model: a number, or an object given as the sequence   *)
(* of its key/value pairs                                                   *)
JsonNumber(n) == [json |-> "number", n |-> n, fields |-> <<>>]

JsonObject(f) == [json |-> "object", n |-> 0, fields |-> f]

(* Values an element of "events" can take in a poll response: an object    *)
(* and a number                                                             *)
EventValues == {JsonObject(<<>>), JsonNumber(1)}

EventSeqs ==
    UNION {[1..n -> EventValues] : n \in 0..MaxEvents}

CreateResponses ==
    {Ok(Object([id |-> j])) : j \in JobIds}
        \cup {Ok(Object([message |-> "unsupported"])), Ok(ArrayBody),
              Ok(InvalidBody), StatusResponse}
        \cup {Transport(t) : t \in TransportErrors}

PollResponses ==
    {Ok(Object([done |-> TRUE, events |-> E])) : E \in EventSeqs}
        \cup {Ok(Object([done |-> TRUE])),
              Ok(Object([done |-> FALSE, events |-> <<>>])),
              Ok(Object([events |-> <<>>])),
              Ok(ArrayBody), Ok(InvalidBody), StatusResponse}
        \cup {Transport(t) : t \in TransportErrors}

(* The response to DELETE is never inspected *)
DeleteResponses ==
    {Ok(InvalidBody), StatusResponse, Transport("ConnectError")}

(* dict.get(key, default) *)
Get(d, k, default) == IF k \in DOMAIN d THEN d[k] ELSE default

(* resp.raise_for_status(); data = resp.json(): the exception class raised, *)
(* or None                                                                  *)
ResponseJSON(r) ==
    CASE r.kind = "transport" -> r.err
      [] r.kind = "status" -> "HTTPStatusError"
      [] r.body.tag = "invalid" -> "JSONDecodeError"
      [] OTHER -> None

(* _create_query_job: what the call completes with for response r *)
_create_query_job(r) ==
    LET e == ResponseJSON(r) IN
    CASE e # None -> [raise |-> e, value |-> None]
      [] r.body.tag # "object" -> [raise |-> "TypeError", value |-> None]
      [] "id" \notin DOMAIN r.body.val -> [raise |-> "KeyError", value |-> None]
      [] OTHER -> [raise |-> None, value |-> r.body.val.id]

(* Variant of _poll_query_job that loses the events of the response *)
_poll_query_job_NoEvents(r) ==
    LET e == ResponseJSON(r) IN
    CASE e # None -> [raise |-> e, done |-> FALSE, events |-> <<>>]
      [] r.body.tag # "object" ->
            [raise |-> "AttributeError", done |-> FALSE, events |-> <<>>]
      [] OTHER ->
            [raise |-> None,
             done |-> Get(r.body.val, "done", FALSE),
             events |-> <<>>]

(* Variant of _poll_query_job that returns after the first response *)
_poll_query_job_OnePoll(r) ==
    LET e == ResponseJSON(r) IN
    CASE e # None -> [raise |-> e, done |-> FALSE, events |-> <<>>]
      [] r.body.tag # "object" ->
            [raise |-> "AttributeError", done |-> FALSE, events |-> <<>>]
      [] OTHER ->
            [raise |-> None, done |-> TRUE,
             events |-> Get(r.body.val, "events", <<>>)]

(* One iteration of the loop of _poll_query_job for response r:            *)
(* raise an exception, return the events, or sleep and poll again          *)
_poll_query_job(r) ==
    LET e == ResponseJSON(r) IN
    CASE e # None -> [raise |-> e, done |-> FALSE, events |-> <<>>]
      [] r.body.tag # "object" ->
            [raise |-> "AttributeError", done |-> FALSE, events |-> <<>>]
      [] OTHER ->
            [raise |-> None,
             done |-> Get(r.body.val, "done", FALSE),
             events |-> Get(r.body.val, "events", <<>>)]

poll_interval == 2

(* Variant of max_retries with one more attempt *)
max_retries_More == 2 + 2

max_retries == 3

(* Variant of BackoffWait with a constant wait *)
BackoffWait_Flat(a) == 2

(* wait = 2.0 * (attempt + 1) *)
BackoffWait(a) == 2 * (a + 1)

(* if attempt < max_retries - 1: await asyncio.sleep(wait) *)
SleepsAfter(a) == a < max_retries - 1

(* Variant of Truthy: the finally clause deletes unconditionally *)
Truthy_Always(j) == TRUE

(* if job_id: *)
Truthy(j) == j # None /\ j # ""

----------------------------------------------------------------------------
(* Text.  A string is a sequence of characters. *)

Digits == {"0", "1", "2", "3", "4", "5", "6", "7", "8", "9"}

DigitValue(c) ==
    CASE c = "0" -> 0 [] c = "1" -> 1 [] c = "2" -> 2 [] c = "3" -> 3
      [] c = "4" -> 4 [] c = "5" -> 5 [] c = "6" -> 6 [] c = "7" -> 7
      [] c = "8" -> 8 [] c = "9" -> 9

(* str.isdigit() *)
IsDigit(s) == s # <<>> /\ \A i \in DOMAIN s : s[i] \in Digits

(* int(s) for a digit string *)
RECURSIVE ParseInt(_)
ParseInt(s) ==
    IF s = <<>> THEN 0
    ELSE 10 * ParseInt(SubSeq(s, 1, Len(s) - 1)) + DigitValue(Last(s))

Whitespace == {" ", "\n"}

(* Chunks resp.aiter_text() can deliver *)
StreamChunks == {<<"{", "}">>, <<"x", " ">>, <<"\n">>}

RECURSIVE LStrip(_)
LStrip(s) ==
    IF s # <<>> /\ Head(s) \in Whitespace THEN LStrip(Tail(s)) ELSE s

RECURSIVE RStrip(_)
RStrip(s) ==
    IF s # <<>> /\ Last(s) \in Whitespace
    THEN RStrip(SubSeq(s, 1, Len(s) - 1))
    ELSE s

(* str.strip() *)
Strip(s) == RStrip(LStrip(s))

(* str.split("\n"): the pieces between line breaks, empty pieces included *)
RECURSIVE SplitLines(_, _)
SplitLines(s, cur) ==
    IF s = <<>> THEN <<cur>>
    ELSE IF Head(s) = "\n" THEN <<cur>> \o SplitLines(Tail(s), <<>>)
    ELSE SplitLines(Tail(s), Append(cur, Head(s)))

(* The JSON documents of the model: the numbers written as digit strings   *)
(* without a leading zero, and the empty object, whose braces may hold      *)
(* spaces                                                                   *)
IsJSONNumber(line) == IsDigit(line) /\ (Len(line) > 1 => Head(line) # "0")

IsJSONObject(line) ==
    /\ Len(line) >= 2
    /\ Head(line) = "{"
    /\ Last(line) = "}"
    /\ \A i \in 2..(Len(line) - 1) : line[i] = " "

(* json.loads succeeds on a line *)
IsJSON(line) == IsJSONNumber(line) \/ IsJSONObject(line)

(* json.loads(line) for a line that is JSON *)
JSONLoads(line) ==
    IF IsJSONNumber(line) THEN JsonNumber(ParseInt(line)) ELSE JsonObject(<<>>)

(* Variant of ParseLines that stops at the first line that fails to parse *)
RECURSIVE ParseLines_StopAtBad(_)
ParseLines_StopAtBad(ls) ==
    IF ls = <<>> THEN <<>>
    ELSE LET line == Strip(Head(ls)) IN
         IF line = <<>> THEN ParseLines_StopAtBad(Tail(ls))
         ELSE IF IsJSON(line)
         THEN <<JSONLoads(line)>> \o ParseLines_StopAtBad(Tail(ls))
         ELSE <<>>

RECURSIVE ParseLines(_)
ParseLines(ls) ==
    IF ls = <<>> THEN <<>>
    ELSE LET line == Strip(Head(ls)) IN
         IF line = <<>> THEN ParseLines(Tail(ls))
         ELSE IF IsJSON(line) THEN <<JSONLoads(line)>> \o ParseLines(Tail(ls))
         ELSE ParseLines(Tail(ls))

(* Variant of _parse_ndjson that decodes every chunk on its own *)
RECURSIVE _parse_ndjson_PerChunk(_)
_parse_ndjson_PerChunk(chunks) ==
    IF chunks = <<>> THEN <<>>
    ELSE LET text == Strip(Head(chunks))
             evs == IF text = <<>> THEN <<>>
                    ELSE ParseLines(SplitLines(text, <<>>))
         IN  evs \o _parse_ndjson_PerChunk(Tail(chunks))

_parse_ndjson(chunks) ==
    LET text == Strip(Concat(chunks)) IN
    IF text = <<>> THEN <<>> ELSE ParseLines(SplitLines(text, <<>>))

----------------------------------------------------------------------------
(* SearchResult *)

(* Variant of Slice that reads a negative bound as a count from the end *)
Slice_FromEnd(evs, m) ==
    IF m >= 0 THEN Take(evs, Min(m, Len(evs)))
    ELSE SubSeq(evs, Max(Len(evs) + m, 0) + 1, Len(evs))

(* Variant of Slice that keeps one event less *)
Slice_OneShort(evs, m) == Take(evs, Max(Min(m, Len(evs)) - 1, 0))

(* events[:max_results] *)
Slice(evs, m) ==
    IF m >= 0 THEN Take(evs, Min(m, Len(evs)))
    ELSE Take(evs, Max(Len(evs) + m, 0))

(* events: List[dict[str, Any]] of SearchResult: pydantic accepts the list  *)
(* when every element is an object                                          *)
ValidEvents(evs) == \A i \in DOMAIN evs : evs[i].json = "object"

NoResult ==
    [status |-> "none", events |-> <<>>, total_events |-> 0,
     total_before_limit |-> 0, max_results |-> 0, truncated |-> FALSE,
     error |-> NoError]

SearchResult(evs, m) ==
    [status |-> "returned", events |-> Slice(evs, m),
     total_events |-> Len(Slice(evs, m)),
     total_before_limit |-> Len(evs), max_results |-> m,
     truncated |-> Len(evs) > m, error |-> NoError]

Raised(e) == [NoResult EXCEPT !.status = "raised", !.error = e]

(* What a try statement completes with: a value or an exception in flight *)
NoPending == [kind |-> "none", events |-> <<>>, error |-> NoError]

Return(evs) == [kind |-> "return", events |-> evs, error |-> NoError]

Raise(e) == [kind |-> "raise", events |-> <<>>, error |-> e]

----------------------------------------------------------------------------
(* Time expressions *)

(* Milliseconds of the timedelta keyword each suffix of _RELATIVE_SUFFIXES  *)
(* names                                                                    *)
_RELATIVE_SUFFIXES ==
    [s |-> 1000, m |-> 60000, h |-> 3600000, d |-> 86400000, w |-> 604800000]

_is_relative_time(t0) ==
    IF t0 = <<>> THEN FALSE
    ELSE LET t == Strip(t0) IN
         /\ Len(t) >= 2
         /\ Last(t) \in DOMAIN _RELATIVE_SUFFIXES
         /\ IsDigit(SubSeq(t, 1, Len(t) - 1))

(* str.lower() on the letters of the model *)
LowerChar(c) ==
    CASE c = "N" -> "n" [] c = "O" -> "o" [] c = "W" -> "w" [] OTHER -> c

Lower(s) == [i \in DOMAIN s |-> LowerChar(s[i])]

(* Epoch milliseconds are kept as whole days and milliseconds of the day:  *)
(* the values the code computes do not fit the integers of the checker.    *)
MsPerDay == 24 * 60 * 60 * 1000

EpochMs(d, m) == [days |-> d + (m \div MsPerDay), ms |-> m % MsPerDay]

(* int(t) of a digit string, as epoch milliseconds *)
RECURSIVE ParseEpochMs(_)
ParseEpochMs(s) ==
    IF s = <<>> THEN EpochMs(0, 0)
    ELSE LET v == ParseEpochMs(SubSeq(s, 1, Len(s) - 1))
         IN  EpochMs(10 * v.days, 10 * v.ms + DigitValue(Last(s)))

(* timedelta accepts at most this many days; datetime.min, 0001-01-01, is   *)
(* this many days before the epoch                                          *)
MaxDeltaDays == 999999999

MinDay == 719162

(* The timedelta of amount units of unitMs milliseconds each: whether the  *)
(* constructor raises OverflowError, else its days and milliseconds         *)
timedelta(amount, unitMs) ==
    IF unitMs >= MsPerDay
    THEN LET k == unitMs \div MsPerDay IN
         IF amount > MaxDeltaDays \div k
         THEN [overflow |-> TRUE, days |-> 0, ms |-> 0]
         ELSE [overflow |-> FALSE, days |-> amount * k, ms |-> 0]
    ELSE LET per == MsPerDay \div unitMs IN
         [overflow |-> amount \div per > MaxDeltaDays,
          days |-> amount \div per, ms |-> (amount % per) * unitMs]

(* datetime.fromisoformat on the ISO 8601 strings of the model, after the   *)
(* Z suffix became +00:00 and a missing offset became UTC; on every other   *)
(* string fromisoformat raises ValueError                                   *)
IsoDay2 == <<"1", "9", "7", "0", "-", "0", "1", "-", "0", "2">>

IsoDay2Z == IsoDay2 \o <<"T", "0", "0", ":", "0", "0", "Z">>

IsoDay2Plus1 ==
    IsoDay2 \o <<"T", "0", "0", ":", "0", "0", "+", "0", "1", ":", "0", "0">>

IsISO(t) == t \in {IsoDay2, IsoDay2Z, IsoDay2Plus1}

FromISO(t) ==
    IF t = IsoDay2Plus1 THEN EpochMs(1, 0 - 3600000) ELSE EpochMs(1, 0)

(* _to_epoch_ms(t) with the clock reading now: the exception class raised   *)
(* (None if none) and the value returned.  The subtraction raises           *)
(* OverflowError when the result is before datetime.min.                    *)
_to_epoch_ms(t0, now) ==
    LET t == Strip(t0) IN
    IF _is_relative_time(t)
    THEN LET delta == timedelta(ParseInt(SubSeq(t, 1, Len(t) - 1)),
                                _RELATIVE_SUFFIXES[Last(t)])
             dt == EpochMs(now.days - delta.days, now.ms - delta.ms)
         IN  IF delta.overflow \/ dt.days < 0 - MinDay
             THEN [raise |-> "OverflowError", value |-> EpochMs(0, 0)]
             ELSE [raise |-> None, value |-> dt]
    ELSE IF IsDigit(t) THEN [raise |-> None, value |-> ParseEpochMs(t)]
    ELSE IF ~IsISO(t) THEN [raise |-> "ValueError", value |-> EpochMs(0, 0)]
    ELSE [raise |-> None, value |-> FromISO(t)]

(* Lines 396-399: the end of the range *)
EndMs(t0, now) ==
    IF Lower(Strip(t0)) = <<"n", "o", "w">>
    THEN [raise |-> None, value |-> now]
    ELSE _to_epoch_ms(t0, now)

(* The wall clock: the day and the millisecond of the day of the first      *)
(* reading, and how many milliseconds the clock can advance between two     *)
(* readings of one call                                                     *)
NowDay == 20760

NowMs == 43200000

ClockDrift == 0

Clock == {EpochMs(NowDay, NowMs + k) : k \in 0..ClockDrift}

(* Arguments start and end the caller passes *)
StartArgs == {<<"1", "h">>, <<"1", "1">>, <<"n", "o", "w">>}

EndArgs == {<<"N", "o", "w", " ">>, <<"1", "x">>}

query_string == "error | count()"

----------------------------------------------------------------------------
(* The cluster configuration and the HTTP client built from it *)

ClusterConfig(skip) == [skip_ssl_verify |-> skip]

(* skip_ssl_verify: bool = False *)
DefaultCluster == ClusterConfig(FALSE)

Clusters == {ClusterConfig(skip) : skip \in BOOLEAN}

(* httpx.AsyncClient(..., verify=False) for the client of cluster c *)
_http_client(c) == [verify |-> FALSE]

----------------------------------------------------------------------------
(* Entries of the wire trace.  A request records whether the client that   *)
(* sends it verifies the server's certificate.                             *)

ReqCreate(p) ==
    [op |-> "create", payload |-> p, verify |-> _http_client(cluster).verify]

ReqPoll(j) ==
    [op |-> "poll", id |-> j, verify |-> _http_client(cluster).verify]

ReqDelete(j) ==
    [op |-> "delete", id |-> j, verify |-> _http_client(cluster).verify]

(* Variant of ReqStream that resolves "now" again, a millisecond later *)
ReqStream_ResolvesAgain(p) ==
    [op |-> "stream",
     payload |-> [p EXCEPT !.end = EpochMs(p.end.days, p.end.ms + 1)],
     verify |-> _http_client(cluster).verify]

ReqStream(p) ==
    [op |-> "stream", payload |-> p, verify |-> _http_client(cluster).verify]

Response(of, r) == [op |-> "response", of |-> of, resp |-> r]

EndOfStream == [op |-> "eof"]

(* A chunk of a streamed body, where the trace records the chunks *)
Chunk(c) == [op |-> "chunk", text |-> c]

Sleep(in, secs) == [op |-> "sleep", in |-> in, secs |-> secs]

Cancelled(at) == [op |-> "cancel", at |-> at]

NoPayload ==
    [queryString |-> "", start |-> EpochMs(0, 0), end |-> EpochMs(0, 0),
     isLive |-> FALSE]

Payload(q, s, e) == [queryString |-> q, start |-> s, end |-> e, isLive |-> FALSE]

Polls(l) == Cardinality({i \in DOMAIN l : l[i].op = "poll"})

(* Variant of IsException: no except clause around the DELETE request *)
IsException_Nothing(t) == FALSE

(* except Exception: every class of the model but CancelledError, which     *)
(* derives from BaseException only                                          *)
IsException(t) == t # "CancelledError"

----------------------------------------------------------------------------
(* State after construction: execute_search has been called and has not    *)
(* run yet.                                                                *)

InitCall ==
    /\ pc = "start"
    /\ start \in StartArgs
    /\ end \in EndArgs
    /\ max_results \in MaxResultsArgs
    /\ payload = NoPayload
    /\ job_id = None
    /\ events = <<>>
    /\ attempt = 0
    /\ lines = <<>>
    /\ last_error = NoError
    /\ handled = NoError
    /\ pending = NoPending
    /\ result = NoResult
    /\ log = <<>>

(* One invocation, with no other on the event loop *)
Alone == running = 1 /\ parked = <<>>

(* The call on a client of a cluster configured with the defaults *)
Init == cluster = DefaultCluster /\ Alone /\ InitCall

(* The call on a client of a cluster configured either way *)
InitTLS == cluster \in Clusters /\ Alone /\ InitCall

(* Lines 426-442: execute_search leaves with what the try statement        *)
(* completed with                                                          *)
Exit(p, l) ==
    /\ log' = l
    /\ pending' = p
    /\ IF p.kind = "raise"
       THEN pc' = "failed" /\ result' = Raised(p.error)
       ELSE IF ValidEvents(Slice(p.events, max_results))
       THEN pc' = "done" /\ result' = SearchResult(p.events, max_results)
       ELSE pc' = "failed" /\ result' = Raised(Error("ValidationError", Len(l)))

(* Lines 422-424: the finally clause, entered with the local job_id j *)
Finally(j, p, l) ==
    IF Truthy(j)
    THEN /\ pc' = "delete"
         /\ log' = Append(l, ReqDelete(j))
         /\ pending' = p
         /\ result' = result
    ELSE Exit(p, l)

(* Variant of ExceptClauseRaises that re-raises the handled exception *)
ExceptClauseRaises_Handled(e, h) == h

(* Lines 416-421: an exception e raised while the except clause handles h   *)
(* replaces h; h stays behind only as the context of e                      *)
ExceptClauseRaises(e, h) == e

(* Variant of FreshLines: the list is created once, before the loop *)
FreshLines_Kept(old) == old

(* Line 339: every attempt starts a list of its own *)
FreshLines(old) == <<>>

(* Line 336 after attempt a ended in a handled failure: the next           *)
(* iteration of the for loop, or line 356 when the range is exhausted      *)
NextIteration(a, le, l) ==
    IF a + 1 < max_retries
    THEN /\ attempt' = a + 1
         /\ lines' = FreshLines(lines)
         /\ pc' = "stream"
         /\ log' = Append(l, ReqStream(payload))
         /\ UNCHANGED <<pending, result>>
    ELSE /\ UNCHANGED <<attempt, lines>>
         /\ Finally(job_id,
                    Raise(ExceptClauseRaises(
                              IF le = NoError
                              THEN Error("RuntimeError", Len(l)) ELSE le,
                              handled)), l)

(* Lines 350-354: exception e comes out of the try body of                 *)
(* _stream_search_response                                                 *)
StreamRaises(e, l) ==
    IF e.type \in _RETRYABLE_ERRORS
    THEN /\ last_error' = e
         /\ IF SleepsAfter(attempt)
            THEN /\ pc' = "backoff"
                 /\ log' = Append(l, Sleep("backoff", BackoffWait(attempt)))
                 /\ UNCHANGED <<attempt, lines, pending, result>>
            ELSE NextIteration(attempt, e, l)
    ELSE /\ Finally(job_id, Raise(ExceptClauseRaises(e, handled)), l)
         /\ UNCHANGED <<attempt, lines, last_error>>

(* Lines 416-420: exception e comes out of the try body of execute_search *)
TryRaises(e, l) ==
    IF e.type \in FallbackErrors
    THEN /\ job_id' = None
         /\ handled' = e
         /\ attempt' = 0
         /\ lines' = FreshLines(lines)
         /\ last_error' = NoError
         /\ pc' = "stream"
         /\ log' = Append(l, ReqStream(payload))
         /\ UNCHANGED <<pending, result>>
    ELSE /\ Finally(job_id, Raise(e), l)
         /\ UNCHANGED <<job_id, handled, attempt, lines, last_error>>

----------------------------------------------------------------------------
(* Actions *)

(* Lines 395-414: resolve the time range, build the payload, send the      *)
(* create request.  t1 is the clock read by time.time(), t2 the clock read *)
(* by datetime.now() afterwards.                                           *)
Begin ==
    /\ pc = "start"
    /\ \E t1 \in Clock, t2 \in Clock :
        /\ t1.ms <= t2.ms
        /\ LET e == EndMs(end, t1)
               s == _to_epoch_ms(start, t2)
           IN  IF e.raise # None
               THEN /\ Exit(Raise(Error(e.raise, 0)), log)
                    /\ UNCHANGED payload
               ELSE IF s.raise # None
               THEN /\ Exit(Raise(Error(s.raise, 0)), log)
                    /\ UNCHANGED payload
               ELSE /\ payload' = Payload(query_string, s.value, e.value)
                    /\ log' = Append(log, ReqCreate(payload'))
                    /\ pc' = "create"
                    /\ UNCHANGED <<pending, result>>
    /\ UNCHANGED <<args, job_id, events, attempt, lines, last_error,
                   handled>>

(* Lines 278-284 and 414-415: the create response arrives; on success the  *)
(* first poll request is sent                                              *)
CreateResponse ==
    /\ pc = "create"
    /\ \E r \in CreateResponses :
        LET l == Append(log, Response("create", r))
            o == _create_query_job(r)
        IN  IF o.raise = None
            THEN /\ job_id' = o.value
                 /\ pc' = "poll"
                 /\ log' = Append(l, ReqPoll(o.value))
                 /\ UNCHANGED <<handled, attempt, lines, last_error, pending,
                                result>>
            ELSE TryRaises(Error(o.raise, Len(l)), l)
    /\ UNCHANGED <<args, payload, events>>

(* Lines 298-310: a poll response arrives *)
PollResponse ==
    /\ pc = "poll"
    /\ \E r \in PollResponses :
        LET l == Append(log, Response("poll", r))
            o == _poll_query_job(r)
        IN  IF o.raise # None
            THEN /\ TryRaises(Error(o.raise, Len(l)), l)
                 /\ UNCHANGED events
            ELSE IF o.done
            THEN /\ events' = o.events
                 /\ Finally(job_id, Return(o.events), l)
                 /\ UNCHANGED <<job_id, handled, attempt, lines, last_error>>
            ELSE /\ Polls(log) < MaxPolls
                 /\ pc' = "sleep"
                 /\ log' = Append(l, Sleep("poll", poll_interval))
                 /\ UNCHANGED <<job_id, events, handled, attempt, lines,
                                last_error, pending, result>>
    /\ UNCHANGED <<args, payload>>

(* Lines 310 and 297-298: the sleep between two polls ends *)
PollWake ==
    /\ pc = "sleep"
    /\ pc' = "poll"
    /\ log' = Append(log, ReqPoll(job_id))
    /\ UNCHANGED <<args, payload, job_id, events, attempt, lines,
                   last_error, handled, pending, result>>

(* Lines 340-346: the streaming request is answered (status line and       *)
(* headers) or fails; the wire trace records the failures                  *)
StreamResponse ==
    /\ pc = "stream"
    /\ \E r \in {Ok(InvalidBody), StatusResponse}
                  \cup {Transport(t) : t \in TransportErrors} :
        LET l == Append(log, Response("stream", r)) IN
        CASE r.kind = "ok" ->
                /\ pc' = "streaming"
                /\ UNCHANGED <<attempt, lines, last_error, pending, result,
                               log>>
          [] r.kind = "status" ->
                StreamRaises(Error("HTTPStatusError", Len(l)), l)
          [] OTHER -> StreamRaises(Error(r.err, Len(l)), l)
    /\ UNCHANGED <<args, payload, job_id, events, handled>>

(* Lines 347-348: a chunk of the body arrives.  The wire trace is left to  *)
(* the specification: it records the chunk or leaves it out.               *)
StreamChunk ==
    /\ pc = "streaming"
    /\ Len(lines) < MaxChunks
    /\ \E c \in StreamChunks : lines' = Append(lines, c)
    /\ UNCHANGED <<pc, args, payload, job_id, events,
                   attempt,
                   last_error, handled, pending, result>>

(* The trace leaves the chunks of a body out *)
ChunksUnrecorded == UNCHANGED log

(* The trace records the chunk that arrived *)
ChunksRecorded == log' = Append(log, Chunk(Last(lines')))

(* Line 347: the connection fails while the body is read *)
StreamBreak ==
    /\ pc = "streaming"
    /\ \E t \in TransportErrors :
        LET l == Append(log, Response("stream", Transport(t))) IN
        StreamRaises(Error(t, Len(l)), l)
    /\ UNCHANGED <<args, payload, job_id, events, handled>>

(* Lines 349 and 421-424: the body ends; the chunks are decoded *)
StreamEnd ==
    /\ pc = "streaming"
    /\ events' = _parse_ndjson(lines)
    /\ Finally(job_id, Return(events'), Append(log, EndOfStream))
    /\ UNCHANGED <<args, payload, job_id, attempt, lines, last_error,
                   handled>>

(* Line 354 and 336: the backoff sleep ends *)
BackoffWake ==
    /\ pc = "backoff"
    /\ NextIteration(attempt, last_error, log)
    /\ UNCHANGED <<args, payload, job_id, events, last_error, handled>>

(* Lines 314-320: the DELETE request is answered or fails; either way      *)
(* execute_search leaves with what the try statement completed with        *)
DeleteResponse ==
    /\ pc = "delete"
    /\ \E r \in DeleteResponses :
        LET l == Append(log, Response("delete", r)) IN
        IF r.kind = "transport" /\ ~IsException(r.err)
        THEN Exit(Raise(Error(r.err, Len(l))), l)
        ELSE Exit(pending, l)
    /\ UNCHANGED <<args, payload, job_id, events, attempt, lines,
                   last_error, handled>>

(* The caller cancels the task: CancelledError is raised at the await the  *)
(* coroutine is suspended on                                               *)
Cancel ==
    /\ pc \in {"create", "poll", "sleep", "stream", "streaming", "backoff",
               "delete"}
    /\ LET l == Append(log, Cancelled(pc))
           e == Error("CancelledError", Len(l))
       IN  CASE pc \in {"create", "poll", "sleep"} -> TryRaises(e, l)
             [] pc \in {"stream", "streaming", "backoff"} ->
                    /\ StreamRaises(e, l)
                    /\ UNCHANGED <<job_id, handled>>
             [] OTHER ->
                    /\ IF IsException(e.type) THEN Exit(pending, l)
                       ELSE Exit(Raise(e), l)
                    /\ UNCHANGED <<job_id, handled, attempt, lines,
                                   last_error>>
    /\ UNCHANGED <<args, payload, events>>

Next ==
    \/ Begin
    \/ CreateResponse
    \/ PollResponse
    \/ PollWake
    \/ StreamResponse
    \/ StreamChunk /\ ChunksUnrecorded
    \/ StreamBreak
    \/ StreamEnd
    \/ BackoffWake
    \/ DeleteResponse
    \/ Cancel

Spec == Init /\ [][Next]_vars

(* The job path under fair scheduling: the run up to the point where it    *)
(* terminates or enters the streaming fallback.  The event loop resumes    *)
(* the coroutine when asyncio.sleep(poll_interval) is over, and every      *)
(* awaited request ends, with a response or with the exception of the      *)
(* client's timeout: a poll is answered, a DELETE is answered.             *)
NextJob ==
    \/ Begin
    \/ CreateResponse
    \/ PollResponse
    \/ PollWake
    \/ DeleteResponse
    \/ Cancel

SpecTLS == InitTLS /\ [][Next]_vars

----------------------------------------------------------------------------
(* Two invocations of execute_search on one event loop.  Each is a         *)
(* coroutine with its own frame: the arguments, the locals and the client  *)
(* _make_client built for it.  The event loop runs one coroutine at a time *)
(* and switches between them where they await.                             *)

(* The frame of the running invocation *)
Frame ==
    [pc |-> pc, cluster |-> cluster, start |-> start, end |-> end,
     max_results |-> max_results, payload |-> payload, job_id |-> job_id,
     events |-> events, attempt |-> attempt, lines |-> lines,
     last_error |-> last_error, handled |-> handled, pending |-> pending,
     result |-> result, log |-> log]

Invocations == {1, 2}

(* Variant of LocalJobId: job_id is kept on a client the invocations share *)
LocalJobId_OnClient(own, left) == left

(* Line 412: job_id is a local of execute_search, and line 58 of server.py *)
(* builds a client for each call.  The invocation that is resumed finds    *)
(* the value of its own frame, not the one the suspended invocation left.  *)
LocalJobId(own, left) == own

(* The frame of a call that has not run yet *)
FreshFrame ==
    [pc |-> "start", cluster |-> DefaultCluster, start |-> <<"1", "h">>,
     end |-> <<"N", "o", "w", " ">>, max_results |-> 1,
     payload |-> NoPayload, job_id |-> None, events |-> <<>>,
     attempt |-> 0, lines |-> <<>>, last_error |-> NoError,
     handled |-> NoError, pending |-> NoPending, result |-> NoResult,
     log |-> <<>>]

InitPair ==
    /\ running = 1
    /\ parked = [r \in Invocations \ {1} |-> FreshFrame]
    /\ pc = FreshFrame.pc
    /\ cluster = FreshFrame.cluster
    /\ start = FreshFrame.start
    /\ end = FreshFrame.end
    /\ max_results = FreshFrame.max_results
    /\ payload = FreshFrame.payload
    /\ job_id = FreshFrame.job_id
    /\ events = FreshFrame.events
    /\ attempt = FreshFrame.attempt
    /\ lines = FreshFrame.lines
    /\ last_error = FreshFrame.last_error
    /\ handled = FreshFrame.handled
    /\ pending = FreshFrame.pending
    /\ result = FreshFrame.result
    /\ log = FreshFrame.log

(* The event loop suspends the running invocation at its await and resumes *)
(* invocation r, which has not ended, in its own frame.                    *)
Switch ==
    \E r \in DOMAIN parked :
        /\ parked[r].pc \notin {"done", "failed"}
        /\ running' = r
        /\ parked' = [q \in (DOMAIN parked \ {r}) \cup {running} |->
                        IF q = running THEN Frame ELSE parked[q]]
        /\ pc' = parked[r].pc
        /\ cluster' = parked[r].cluster
        /\ start' = parked[r].start
        /\ end' = parked[r].end
        /\ max_results' = parked[r].max_results
        /\ payload' = parked[r].payload
        /\ job_id' = LocalJobId(parked[r].job_id, job_id)
        /\ events' = parked[r].events
        /\ attempt' = parked[r].attempt
        /\ lines' = parked[r].lines
        /\ last_error' = parked[r].last_error
        /\ handled' = parked[r].handled
        /\ pending' = parked[r].pending
        /\ result' = parked[r].result
        /\ log' = parked[r].log

(* The answers of the server in this specification *)
PairResponses ==
    {Ok(Object([id |-> j])) : j \in JobIds}
        \cup {Ok(Object([done |-> TRUE, events |-> <<JsonObject(<<>>)>>])),
              Ok(Object([done |-> FALSE, events |-> <<>>])),
              Ok(InvalidBody), StatusResponse, Transport("ConnectError")}

Answered ==
    \A i \in (Len(log) + 1)..Len(log') :
        log'[i].op = "response" => log'[i].resp \in PairResponses

NextPair ==
    \/ Begin
    \/ CreateResponse /\ Answered
    \/ PollResponse /\ Answered
    \/ PollWake
    \/ DeleteResponse /\ Answered
    \/ Cancel
    \/ Switch

SpecPair == InitPair /\ [][NextPair]_vars

SpecFair ==
    /\ Init
    /\ [][NextJob]_vars
    /\ WF_vars(PollWake)
    /\ WF_vars(PollResponse)
    /\ WF_vars(DeleteResponse)

----------------------------------------------------------------------------
(* Result construction on its own: lines 426-442 applied to every sequence *)
(* of events the try statement can complete with and to every max_results  *)
(* of a range around zero.                                                 *)

MaxLen == 3         \* events the try statement completes with

MaxLimit == 4       \* absolute value of max_results

ResultValues == EventValues \cup {JsonObject(<<<<"n", 1>>>>)}

ResultEvents == UNION {[1..n -> ResultValues] : n \in 0..MaxLen}

InitResult ==
    /\ pc = "result"
    /\ cluster = DefaultCluster
    /\ Alone
    /\ start = <<"1", "h">>
    /\ end = <<"n", "o", "w">>
    /\ max_results \in (0 - MaxLimit)..MaxLimit
    /\ payload = NoPayload
    /\ job_id = None
    /\ events \in ResultEvents
    /\ attempt = 0
    /\ lines = <<>>
    /\ last_error = NoError
    /\ handled = NoError
    /\ pending = NoPending
    /\ result = NoResult
    /\ log = <<>>

(* Lines 426-442 *)
BuildResult ==
    /\ pc = "result"
    /\ Exit(Return(events), log)
    /\ UNCHANGED <<args, payload, job_id, events, attempt,
                   lines, last_error, handled>>

SpecResult == InitResult /\ [][BuildResult]_vars

----------------------------------------------------------------------------
(* Decoding on its own: the streaming fallback, entered after the create   *)
(* request was answered with an error status, has received a body of up to *)
(* MaxText characters in one or two chunks; the body ends.                 *)

MaxText == 5        \* characters of a streamed body

DecodeChars == {"1", "x", " ", "\n", "{", "}"}

Texts == UNION {[1..n -> DecodeChars] : n \in 0..MaxText}

(* A text as resp.aiter_text() can deliver it: cut at c into two chunks *)
Chunked(t, c) == <<SubSeq(t, 1, c), SubSeq(t, c + 1, Len(t))>>

InitDecode ==
    /\ pc = "streaming"
    /\ cluster = DefaultCluster
    /\ Alone
    /\ start = <<"1", "1">>
    /\ end = <<"n", "o", "w">>
    /\ max_results = MaxText
    /\ payload = Payload(query_string, EpochMs(0, 11), EpochMs(NowDay, NowMs))
    /\ job_id = None
    /\ events = <<>>
    /\ attempt = 0
    /\ \E t \in Texts : \E c \in 0..Len(t) : lines = Chunked(t, c)
    /\ last_error = NoError
    /\ handled = Error("HTTPStatusError", 2)
    /\ pending = NoPending
    /\ result = NoResult
    /\ log = <<ReqCreate(payload), Response("create", StatusResponse),
               ReqStream(payload)>>

SpecDecode == InitDecode /\ [][StreamEnd]_vars

----------------------------------------------------------------------------
(* The streaming fallback on its own, with the chunks of every attempt on  *)
(* the trace: the create request was answered with an error status and the *)
(* first streaming request is in flight.                                   *)

InitStream ==
    /\ pc = "stream"
    /\ cluster = DefaultCluster
    /\ Alone
    /\ start = <<"1", "1">>
    /\ end = <<"n", "o", "w">>
    /\ max_results \in MaxResultsArgs
    /\ payload = Payload(query_string, EpochMs(0, 11), EpochMs(NowDay, NowMs))
    /\ job_id = None
    /\ events = <<>>
    /\ attempt = 0
    /\ lines = <<>>
    /\ last_error = NoError
    /\ handled = Error("HTTPStatusError", 2)
    /\ pending = NoPending
    /\ result = NoResult
    /\ log = <<ReqCreate(payload), Response("create", StatusResponse),
               ReqStream(payload)>>

NextStream ==
    \/ StreamResponse
    \/ StreamChunk /\ ChunksRecorded
    \/ StreamBreak
    \/ StreamEnd
    \/ BackoffWake

SpecStream == InitStream /\ [][NextStream]_vars

----------------------------------------------------------------------------
(* Time resolution on its own: execute_search is called with start and end *)
(* drawn from the forms _to_epoch_ms distinguishes and runs up to its      *)
(* first await.                                                            *)

Amounts ==
    {<<"0">>, <<"1">>, <<"9", "0">>, <<"2", "0", "0", "0", "0", "0">>,
     <<"9", "9", "9", "9", "9", "9", "9", "9", "9">>}

RelativeArgs == {a \o <<u>> : a \in Amounts, u \in DOMAIN _RELATIVE_SUFFIXES}

IntegerArgs ==
    {<<"0">>, <<"1", "1">>,
     <<"1", "7", "0", "0", "0", "0", "0", "0", "0", "0", "1", "2", "3">>}

OtherArgs ==
    {<<>>, <<"n", "o", "w">>, <<"N", "O", "W">>, <<"h">>, <<"1", "x">>,
     <<"1", " ", "h">>, <<"x", "1", "h">>}

Padded(ts) == {<<" ">> \o t \o <<" ", "\n">> : t \in ts}

TimeArgs ==
    RelativeArgs \cup IntegerArgs \cup OtherArgs
        \cup {IsoDay2, IsoDay2Z, IsoDay2Plus1}
        \cup Padded({<<"1", "h">>, <<"1", "1">>, <<"n", "o", "w">>, IsoDay2})

InitTime ==
    /\ pc = "start"
    /\ cluster = DefaultCluster
    /\ Alone
    /\ start \in TimeArgs
    /\ end \in TimeArgs
    /\ max_results \in MaxResultsArgs
    /\ payload = NoPayload
    /\ job_id = None
    /\ events = <<>>
    /\ attempt = 0
    /\ lines = <<>>
    /\ last_error = NoError
    /\ handled = NoError
    /\ pending = NoPending
    /\ result = NoResult
    /\ log = <<>>

SpecTime == InitTime /\ [][Begin]_vars

----------------------------------------------------------------------------
(* Reading the wire trace *)

Requests(op) == {i \in DOMAIN log : log[i].op = op}

IsResponse(i, of) == log[i].op = "response" /\ log[i].of = of

(* The create response at i carries a job identifier *)
JobCreated(i) ==
    /\ IsResponse(i, "create")
    /\ log[i].resp.kind = "ok"
    /\ log[i].resp.body.tag = "object"
    /\ "id" \in DOMAIN log[i].resp.body.val

DeletesOf(j) == {k \in Requests("delete") : log[k].id = j}

(* The poll response at i is an object with the given value of done *)
PollAnswered(i, d) ==
    /\ IsResponse(i, "poll")
    /\ log[i].resp.kind = "ok"
    /\ log[i].resp.body.tag = "object"
    /\ "done" \in DOMAIN log[i].resp.body.val
    /\ log[i].resp.body.val.done = d

(* The job API answered at i with an HTTP error status *)
StatusFailure(i) ==
    /\ IsResponse(i, "create") \/ IsResponse(i, "poll")
    /\ log[i].resp.kind = "status"

(* The job API answered at i with a response of unexpected shape *)
ShapeFailure(i) ==
    /\ log[i].op = "response"
    /\ log[i].resp.kind = "ok"
    /\ \/ /\ log[i].of = "create"
          /\ log[i].resp.body.tag = "object"
          /\ "id" \notin DOMAIN log[i].resp.body.val
       \/ /\ log[i].of = "poll"
          /\ \/ log[i].resp.body.tag = "array"
             \/ /\ log[i].resp.body.tag = "object"
                /\ "done" \notin DOMAIN log[i].resp.body.val

(* The transient transport failures of the streaming fallback *)
TransientFailures ==
    {"ReadError", "ConnectError", "RemoteProtocolError", "CloseError"}

(* The streaming attempt failed at i, and with which class *)
StreamFailure(i) == IsResponse(i, "stream") /\ log[i].resp.kind # "ok"

FailureClass(i) ==
    IF log[i].resp.kind = "status" THEN "HTTPStatusError" ELSE log[i].resp.err

TransientAt(i) == StreamFailure(i) /\ FailureClass(i) \in TransientFailures

(* Streaming requests issued before position i *)
AttemptsBefore(i) == Cardinality({k \in Requests("stream") : k < i})

Backoffs == {i \in Requests("sleep") : log[i].in = "backoff"}

Terminated == pc \in {"done", "failed"}

----------------------------------------------------------------------------
(* Claims *)

(* C1: once execute_search has exited, a run in which the create response  *)
(* carried a job id has issued exactly one DELETE request for that id,     *)
(* whatever the exit path (success, poll failing with an HTTP status that  *)
(* triggers the fallback, any other poll failure, cancellation).           *)
C1_ExactlyOneDeletePerCreatedJob ==
    \A i \in DOMAIN log :
        (JobCreated(i) /\ Terminated)
            => Cardinality(DeletesOf(log[i].resp.body.val.id)) = 1

(* C2: when the create request is answered with an HTTP error status, no   *)
(* DELETE request is ever issued and the next request is the streaming     *)
(* request, carrying the payload that was sent to job creation.            *)
C2_CreateStatusErrorFallsBackWithoutDelete ==
    \A i \in DOMAIN log :
        (IsResponse(i, "create") /\ log[i].resp.kind = "status")
            => /\ Requests("delete") = {}
               /\ Requests("poll") = {}
               /\ i < Len(log)
               /\ log[i + 1].op = "stream"
               /\ log[i + 1].payload = payload
               /\ log[1].op = "create"
               /\ log[i + 1].payload = log[1].payload

C2_Witness ==
    /\ pc = "done"
    /\ \E i \in DOMAIN log :
        IsResponse(i, "create") /\ log[i].resp.kind = "status"

(* C3: when the k polls before a poll answered done=true with events E     *)
(* were all answered done=false, there are exactly k+1 poll requests, the  *)
(* poll loop returns E in order, and exactly one DELETE request, for the   *)
(* polled job id, follows the last poll.                                   *)
C3_PollUntilDoneThenDelete ==
    \A i \in DOMAIN log :
        (/\ PollAnswered(i, TRUE)
         /\ \A j \in 1..(i - 1) : IsResponse(j, "poll") => PollAnswered(j, FALSE))
            => LET k == Cardinality({j \in 1..(i - 1) : PollAnswered(j, FALSE)})
                   E == Get(log[i].resp.body.val, "events", <<>>)
                   polls == Requests("poll")
               IN  /\ Cardinality(polls) = k + 1
                   /\ \A p \in polls : p < i /\ log[p].id = job_id
                   /\ events = E
                   /\ pc = "delete" => pending = Return(E)
                   /\ pc = "done" => result.events = Slice(E, max_results)
                   /\ Requests("delete") = {i + 1}
                   /\ log[i + 1].id = job_id
                   /\ \E c \in DOMAIN log : JobCreated(c) /\ log[c].resp.body.val.id = job_id

C3_Witness ==
    /\ pc = "done"
    /\ Cardinality(Requests("poll")) = 3
    /\ events = <<JsonObject(<<>>), JsonNumber(1)>>
    /\ result.events = <<JsonObject(<<>>)>>
    /\ \E i \in DOMAIN log : PollAnswered(i, TRUE)
    /\ \A j \in DOMAIN log :
        IsResponse(j, "poll") => PollAnswered(j, FALSE) \/ PollAnswered(j, TRUE)

(* C4: a cancellation delivered while the coroutine awaits a poll response *)
(* or sleeps between two polls is followed at once by a DELETE request for *)
(* the job being polled, so the request is on the wire before              *)
(* execute_search is left with CancelledError.                             *)
C4_CancelWhilePollingDeletes ==
    \A i \in DOMAIN log :
        (log[i].op = "cancel" /\ log[i].at \in {"poll", "sleep"})
            => /\ i < Len(log)
               /\ log[i + 1].op = "delete"
               /\ \E p \in Requests("poll") : p < i /\ log[p].id = log[i + 1].id
               /\ \A p \in Requests("poll") : log[p].id = log[i + 1].id
               /\ Terminated => pc = "failed" /\ result.error.type = "CancelledError"

C4_Witness ==
    /\ pc = "failed"
    /\ result.error.type = "CancelledError"
    /\ \E i \in DOMAIN log : log[i].op = "cancel" /\ log[i].at = "sleep"
    /\ \E i \in DOMAIN log : IsResponse(i, "delete")

(* C5: a create or poll response that is an HTTP error status or has an    *)
(* unexpected shape (a create object without id; a poll object without     *)
(* done, or a poll body that is not an object) is followed by the          *)
(* streaming request and by no further create or poll request.             *)
C5_UnavailableJobApiFallsBack ==
    \A i \in DOMAIN log :
        (StatusFailure(i) \/ ShapeFailure(i))
            => /\ i < Len(log)
               /\ log[i + 1].op = "stream"
               /\ \A k \in (i + 1)..Len(log) : log[k].op \notin {"create", "poll"}

(* C6: a streaming request is issued only after the job path failed with   *)
(* an HTTP error status or with a create response lacking the id: the      *)
(* first streaming request directly follows such a response; no streaming  *)
(* request exists once a poll answered done=true, nor after a create or    *)
(* poll that failed in any other way (transport error, timeout, body that  *)
(* is not JSON or not an object, cancellation), which is the error the     *)
(* caller gets.                                                            *)
C6_StreamOnlyAfterJobApiUnavailable ==
    /\ \A s \in Requests("stream") :
        \E j \in 1..(s - 1) :
            /\ StatusFailure(j)
               \/ (ShapeFailure(j) /\ log[j].of = "create")
            /\ log[j + 1].op = "stream"
            /\ \A k \in 1..j : log[k].op # "stream"
    /\ \A i \in DOMAIN log :
        PollAnswered(i, TRUE) => Requests("stream") = {}
    /\ \A i \in DOMAIN log :
        (/\ IsResponse(i, "create") \/ IsResponse(i, "poll")
         /\ \/ log[i].resp.kind = "transport"
            \/ log[i].resp.kind = "ok" /\ log[i].resp.body.tag = "invalid")
            => /\ Requests("stream") = {}
               /\ Terminated =>
                    /\ pc = "failed"
                    /\ result.error.at = i \/ result.error.type = "CancelledError"

C6_Witness ==
    /\ pc = "done"
    /\ Requests("stream") # {}
    /\ \E i \in DOMAIN log : IsResponse(i, "poll") /\ log[i].resp.kind = "status"

(* C7: the streaming fallback issues at most 3 requests per call; after 3  *)
(* transient failures the call has failed with the third failure and       *)
(* nothing follows it on the wire.                                         *)
C7_AtMostThreeAttemptsLastFailureSurfaces ==
    /\ Cardinality(Requests("stream")) <= 3
    /\ LET F == {i \in DOMAIN log : TransientAt(i)} IN
       Cardinality(F) = 3 =>
           LET third == CHOOSE i \in F : \A k \in F : k <= i IN
           /\ third = Len(log)
           /\ pc = "failed"
           /\ result.status = "raised"
           /\ result.error = Error(FailureClass(third), third)

C7_Witness ==
    /\ pc = "failed"
    /\ Cardinality({i \in DOMAIN log : TransientAt(i)}) = 3
    /\ \E i, k \in DOMAIN log :
        TransientAt(i) /\ TransientAt(k) /\ FailureClass(i) # FailureClass(k)

C9_NonTransientFailsImmediately ==
    \A i \in DOMAIN log :
        (StreamFailure(i) /\ FailureClass(i) \notin TransientFailures)
            => /\ i = Len(log)
               /\ pc = "failed"
               /\ result.error = Error(FailureClass(i), i)

C9_Witness ==
    /\ pc = "failed"
    /\ \E i \in DOMAIN log :
        /\ StreamFailure(i)
        /\ FailureClass(i) = "HTTPStatusError"
        /\ \E k \in 1..(i - 1) : TransientAt(k)

(* C10: when execute_search fails after the streaming fallback was         *)
(* started, the error it fails with was raised inside the fallback (after  *)
(* the first streaming request) and is not the job-path error that         *)
(* triggered the fallback.                                                 *)
C10_FallbackErrorSurfaces ==
    (pc = "failed" /\ Requests("stream") # {})
        => /\ handled # NoError
           /\ result.error # handled
           /\ \A s \in Requests("stream") :
                (\A k \in Requests("stream") : s <= k) => result.error.at > s
           /\ handled.at < result.error.at

C10_Witness ==
    /\ pc = "failed"
    /\ handled.type = "HTTPStatusError"
    /\ result.error.type = "HTTPStatusError"
    /\ Cardinality(Requests("stream")) = 2

----------------------------------------------------------------------------
(* C11: for a sequence of L events and max_results M >= 0 the result holds *)
(* the first min(L, M) events in their order, total_events is min(L, M),   *)
(* total_before_limit is L, max_results is M and truncated is L > M.       *)
C11_TruncationAccounting ==
    (pc = "done" /\ max_results >= 0)
        => LET L == Len(events)
               M == max_results
               n == IF L < M THEN L ELSE M
           IN  /\ Len(result.events) = n
               /\ \A i \in 1..n : result.events[i] = events[i]
               /\ result.total_events = n
               /\ result.total_before_limit = L
               /\ result.max_results = M
               /\ result.truncated = (L > M)

C11_Witness ==
    /\ pc = "done"
    /\ Len(events) = 3
    /\ max_results = 2
    /\ result.truncated
    /\ result.events = <<events[1], events[2]>>
    /\ events[1] # events[2]

----------------------------------------------------------------------------
(* C12: when the answer to the DELETE request arrives, be it a success, an *)
(* error status or a transport failure, execute_search leaves with what    *)
(* the try statement had completed with before the DELETE was sent: the    *)
(* result built from its events, or its exception.                         *)
C12_DeleteFailureKeepsOutcome ==
    [][(pc = "delete" /\ Len(log') = Len(log) + 1
            /\ log'[Len(log')].op = "response")
        => IF pending.kind = "raise"
           THEN pc' = "failed" /\ result' = Raised(pending.error)
           ELSE IF ValidEvents(Slice(pending.events, max_results))
           THEN /\ pc' = "done"
                /\ result' = SearchResult(pending.events, max_results)
           ELSE /\ pc' = "failed"
                /\ result' = Raised(Error("ValidationError", Len(log')))]_vars

C12_Witness ==
    /\ pc = "done"
    /\ IsResponse(Len(log), "delete")
    /\ Last(log).resp.kind = "transport"
    /\ result.status = "returned"
    /\ result.events # <<>>

----------------------------------------------------------------------------
(* C13: decoding returns the parsed values of exactly those lines of the   *)
(* text that, trimmed, parse as JSON, in the order of the lines; empty and *)
(* unparseable lines contribute nothing and raise nothing.                 *)
C13_Parses(line) == IsJSON(Strip(line))

C13_Expected(text) ==
    LET good == SelectSeq(SplitLines(text, <<>>), C13_Parses)
    IN  [i \in 1..Len(good) |-> JSONLoads(Strip(good[i]))]

----------------------------------------------------------------------------
(* The forms of a time expression, once trimmed *)
IsRelativeForm(t) ==
    /\ Len(t) >= 2
    /\ Last(t) \in {"s", "m", "h", "d", "w"}
    /\ IsDigit(SubSeq(t, 1, Len(t) - 1))

IsNowForm(t) == Lower(t) = <<"n", "o", "w">>

IsRecognisedForm(t) == IsRelativeForm(t) \/ IsDigit(t) \/ IsISO(t)

UnitMs(u) ==
    CASE u = "s" -> 1000 [] u = "m" -> 60000 [] u = "h" -> 3600000
      [] u = "d" -> 86400000 [] u = "w" -> 604800000

(* n times ms, by doubling *)
RECURSIVE Times(_, _)
Times(n, ms) ==
    IF n = 0 THEN EpochMs(0, 0)
    ELSE LET h == Times(n \div 2, ms)
         IN  EpochMs(2 * h.days, 2 * h.ms + (n % 2) * ms)

(* v minus n times ms *)
Minus(v, n, ms) ==
    EpochMs(v.days - Times(n, ms).days, v.ms - Times(n, ms).ms)

(* C14: with end "now", a start of digits n and a unit resolves to the     *)
(* clock reading minus n times the milliseconds of the unit, and a start   *)
(* of digits only resolves to that integer.                                *)
C14_RelativeAndIntegerResolution ==
    (pc # "start" /\ IsNowForm(Strip(end)))
        => LET t == Strip(start) IN
           /\ IsRelativeForm(t)
                => /\ pc = "create"
                   /\ \E now \in Clock :
                        payload.start =
                            Minus(now, ParseInt(SubSeq(t, 1, Len(t) - 1)),
                                  UnitMs(Last(t)))
           /\ IsDigit(t) => pc = "create" /\ payload.start = ParseEpochMs(t)

(* C15: "now" in any case is accepted as end, where it resolves to the     *)
(* clock reading; a start or an end of no recognised form, "now" as start  *)
(* included, makes the call fail with the ValueError of the time parser    *)
(* before any request is sent.                                             *)
C15_UnrecognisedTimeFailsBeforeAnyRequest ==
    pc # "start"
        => LET s == Strip(start)
               e == Strip(end)
           IN  /\ (IsNowForm(e) /\ pc = "create") => payload.end \in Clock
               /\ (IsNowForm(e) /\ IsRecognisedForm(s)
                        /\ result.error.type # "OverflowError")
                    => pc = "create"
               /\ (~IsRecognisedForm(s)
                        \/ ~(IsNowForm(e) \/ IsRecognisedForm(e)))
                    => /\ pc = "failed"
                       /\ result.error.type = "ValueError"
                       /\ log = <<>>

----------------------------------------------------------------------------
(* C16: a poll answered done=false is followed by one sleep of the poll    *)
(* interval and then, unless the call is cancelled, by the next poll of    *)
(* the same job, however many polls came before; every poll but the first  *)
(* comes right after such a sleep; nothing is slept or polled after a poll *)
(* answered done=true; and once a poll is answered done=true with events   *)
(* the result accepts, the call returns its result unless it is cancelled. *)
C16_SleepsBetweenPolls ==
    /\ \A i \in DOMAIN log :
        PollAnswered(i, FALSE)
            => /\ i < Len(log)
               /\ log[i + 1].op = "sleep"
               /\ log[i + 1].in = "poll"
               /\ log[i + 1].secs = 2
               /\ i + 1 < Len(log)
                    => \/ log[i + 2].op = "cancel"
                       \/ /\ log[i + 2].op = "poll"
                          /\ log[i + 2].id = log[i - 1].id
    /\ \A q \in Requests("poll") :
        (\E p \in Requests("poll") : p < q)
            => /\ log[q - 1].op = "sleep"
               /\ IsResponse(q - 2, "poll")
               /\ ~PollAnswered(q - 2, TRUE)
               /\ log[q - 3].op = "poll"
    /\ \A i \in DOMAIN log :
        PollAnswered(i, TRUE)
            => \A k \in (i + 1)..Len(log) : log[k].op \notin {"sleep", "poll"}

C16_ReturnsOnceDone ==
    (pc = "delete" /\ pending.kind = "return"
        /\ ValidEvents(Slice(pending.events, max_results))
        /\ \E i \in DOMAIN log : PollAnswered(i, TRUE))
    ~> (pc = "done" \/ (pc = "failed" /\ result.error.type = "CancelledError"))

C16_PollLoopSleepsOncePerPollAndReturnsWhenDone ==
    []C16_SleepsBetweenPolls /\ C16_ReturnsOnceDone

C16_Witness ==
    /\ pc = "done"
    /\ Cardinality(Requests("poll")) = 3
    /\ Cardinality(Requests("sleep")) = 2
    /\ \E i \in DOMAIN log : PollAnswered(i, TRUE)
    /\ result.events # <<>>

----------------------------------------------------------------------------
(* C17: a run sends at most one create request, and every streaming        *)
(* request of the run, the retries included, carries the body of that      *)
(* create request: the query, the start and end resolved at the beginning  *)
(* of the call, and isLive false.                                          *)
C17_FallbackSendsTheCreateBody ==
    /\ Cardinality(Requests("create")) <= 1
    /\ \A i \in Requests("create") :
        /\ i = 1
        /\ log[i].payload = payload
        /\ log[i].payload.queryString = query_string
        /\ log[i].payload.isLive = FALSE
    /\ \A k \in Requests("stream") :
        /\ log[1].op = "create"
        /\ log[k].payload = log[1].payload

C17_Witness ==
    /\ Cardinality(Requests("stream")) = 3
    /\ Terminated
    /\ \E now \in Clock :
        \A k \in Requests("stream") :
            /\ log[k].payload.end = now
            /\ log[k].payload.start = EpochMs(now.days, now.ms - 3600000)

----------------------------------------------------------------------------
(* C20: a run sends at most one DELETE request; the DELETE names a job     *)
(* identifier an earlier create response of the same run carried, and      *)
(* every poll request of the run precedes it; a run whose create request   *)
(* returned no identifier sends no DELETE.                                 *)
C20_DeleteOnlyTheCreatedJobOnceAfterPolls ==
    /\ Cardinality(Requests("delete")) <= 1
    /\ \A d \in Requests("delete") :
        /\ \E c \in 1..(d - 1) :
                JobCreated(c) /\ log[c].resp.body.val.id = log[d].id
        /\ \A p \in Requests("poll") : p < d
    /\ (\A c \in DOMAIN log : ~JobCreated(c)) => Requests("delete") = {}

C20_Witness ==
    /\ Terminated
    /\ Cardinality(Requests("poll")) = 2
    /\ \E d \in Requests("delete") : log[d].id = "j2"

----------------------------------------------------------------------------
(* C19: a request is sent without certificate verification only by the     *)
(* client of a cluster whose configuration sets skip_ssl_verify.           *)
C19_VerifiesUnlessSkipSslVerify ==
    \A i \in DOMAIN log :
        log[i].op \in {"create", "poll", "delete", "stream"}
            => cluster.skip_ssl_verify \/ log[i].verify

----------------------------------------------------------------------------
(* C18: with two invocations interleaved in every way, each invocation     *)
(* polls and deletes only a job identifier that its own create response    *)
(* carried, and the frame of an invocation (its locals, its wire trace and *)
(* its result) changes only in the steps that invocation takes itself: not *)
(* when the other one proceeds, fails or is cancelled, and not when the    *)
(* event loop switches between them.                                       *)
InvocationFrame(r) == IF r = running THEN Frame ELSE parked[r]

C18_OwnJobOnly ==
    \A r \in Invocations :
        LET l == InvocationFrame(r).log IN
        \A i \in DOMAIN l :
            l[i].op \in {"poll", "delete"}
                => \E c \in 1..(i - 1) :
                    /\ l[c].op = "response"
                    /\ l[c].of = "create"
                    /\ l[c].resp.kind = "ok"
                    /\ l[c].resp.body.tag = "object"
                    /\ "id" \in DOMAIN l[c].resp.body.val
                    /\ l[c].resp.body.val.id = l[i].id

C18_ConcurrentInvocationsIndependent ==
    /\ []C18_OwnJobOnly
    /\ [][\A r \in Invocations :
            InvocationFrame(r)' # InvocationFrame(r)
                => running = r /\ running' = r]_vars

C18_Witness ==
    /\ running = 2
    /\ pc = "done"
    /\ job_id = "j2"
    /\ Cardinality(Requests("poll")) = 2
    /\ \E d \in Requests("delete") : log[d].id = "j2"
    /\ parked[1].pc = "failed"
    /\ parked[1].result.error.type = "CancelledError"
    /\ parked[1].job_id = "j1"

----------------------------------------------------------------------------
(* C21: when the body of a streaming attempt ends, the chunk list returned *)
(* by _stream_search_response is the sequence of chunks that arrived after *)
(* the last streaming request was sent, in their order of arrival, and the *)
(* decoded events are those of that text alone: chunks that arrived during *)
(* an earlier attempt, which ended in a transient failure, are in neither. *)
IsChunk(e) == e.op = "chunk"

(* The chunks the trace holds after position i *)
ChunksAfter(i) ==
    LET cs == SelectSeq(SubSeq(log, i + 1, Len(log)), IsChunk)
    IN  [k \in 1..Len(cs) |-> cs[k].text]

LastAttempt == CHOOSE i \in Requests("stream") :
                    \A k \in Requests("stream") : k <= i

C21_OnlyChunksOfSuccessfulAttempt ==
    (Terminated /\ Last(log) = EndOfStream)
        => /\ lines = ChunksAfter(LastAttempt)
           /\ events = _parse_ndjson(ChunksAfter(LastAttempt))
           /\ pc = "done" => result.events = Slice(events, max_results)

C21_Witness ==
    /\ pc = "done"
    /\ Last(log) = EndOfStream
    /\ Cardinality(Requests("stream")) = 2
    /\ \E i \in 1..(LastAttempt - 1) : log[i] = Chunk(<<"{", "}">>)
    /\ ChunksAfter(LastAttempt) = <<<<"{", "}">>, <<"\n">>>>
    /\ result.events = <<JsonObject(<<>>)>>

----------------------------------------------------------------------------
(* C22: in every result execute_search returns, whatever the sign of       *)
(* max_results, total_events is the number of events of the result, the    *)
(* events of the result are a prefix of the events the try statement       *)
(* completed with, and total_events is at most total_before_limit, which   *)
(* is the number of those events.                                          *)
IsPrefix(a, b) == Len(a) <= Len(b) /\ \A i \in DOMAIN a : a[i] = b[i]

C22_CountsAndPrefixForEveryLimit ==
    pc = "done"
        => /\ result.status = "returned"
           /\ result.max_results = max_results
           /\ result.total_events = Len(result.events)
           /\ IsPrefix(result.events, events)
           /\ result.total_before_limit = Len(events)
           /\ result.total_events <= result.total_before_limit

C22_Witness ==
    /\ pc = "done"
    /\ max_results = 0 - 1
    /\ Len(events) = 3
    /\ events[1] # events[2]
    /\ events[2] # events[3]
    /\ result.events = <<events[1], events[2]>>
    /\ result.total_events = 2
    /\ result.total_before_limit = 3

----------------------------------------------------------------------------
(* C23: the events decoded from the chunks of a body are the events        *)
(* decoded from the single chunk that is their concatenation, and cutting  *)
(* the last chunk in two at any place, which makes a list of one chunk     *)
(* more, decodes to the same events: a line that is split across chunks is *)
(* decoded as one event.                                                   *)
C23_DecodingIgnoresChunkBoundaries ==
    (Terminated /\ lines # <<>>)
        => /\ events = _parse_ndjson(<<Concat(lines)>>)
           /\ \A c \in 0..Len(Last(lines)) :
                _parse_ndjson(SubSeq(lines, 1, Len(lines) - 1)
                                  \o Chunked(Last(lines), c)) = events

C23_Witness ==
    /\ pc = "done"
    /\ Len(lines) = 2
    /\ lines[1] = <<"{">>
    /\ lines[2] = <<"}", "\n", "{", "}">>
    /\ events = <<JsonObject(<<>>), JsonObject(<<>>)>>

====
